---- MODULE Spec2Model ----
(***************************************************************************)
(* Model of the solar-system scene: the orbital updater of each planet     *)
(* (PlanetPhysics.updatePosition, driven by animate) and the space ship    *)
(* controller (key listeners, focus buttons, moveAndRotateSpaceShip).      *)
(*                                                                         *)
(* Numbers.  The program computes with IEEE doubles; the model computes    *)
(* with exact integers in fixed units:                                     *)
(*   - orbital phase t*rotationVelocity is counted in quarter turns        *)
(*     (pi/2), where Math.sin / Math.cos take the values 0, 1, 0, -1;      *)
(*   - dt is counted in the same unit as t;                                *)
(*   - ship angles are counted in AngleUnit-ths of a radian, chosen so     *)
(*     that every lerp of at most MaxTicks ticks is an exact integer.      *)
(***************************************************************************)
EXTENDS Integers, Sequences, FiniteSets

\* ------------------------------------------------------------------ bounds

\* Total number of updatePosition calls explored over all bodies.
MaxCalls == 4

\* Number of moveAndRotateSpaceShip ticks explored.
MaxTicks == 2

\* ------------------------------------------------------------- orbit data

Bodies == {1, 2}

\* PhysicsParams of the instances explored (radius, rotationVelocity,
\* selfRotationVelocity, rotationCenter).
ParamChoices ==
    { [radius |-> 5, rotationVelocity |-> 1, selfRotationVelocity |-> 1,
       rotationCenter |-> <<0, 0, 0>>],
      [radius |-> 2, rotationVelocity |-> -1, selfRotationVelocity |-> 2,
       rotationCenter |-> <<3, 2, -1>>],
      [radius |-> 5, rotationVelocity |-> 3, selfRotationVelocity |-> 3,
       rotationCenter |-> <<0, 4, 0>>] }

\* Phases an instance may hold (quarter turns).
Phases == 0 .. 3

\* Values of dt passed to updatePosition (quarter turns; 2 = two halves of 1).
DtSet == {0, 1, 2}

VARIABLES
    physics,      \* body -> [params, t, position, rotationY] (PlanetPhysics + its mesh)
    dts,          \* body -> sequence of the dt of every updatePosition call so far
    spaceShip,    \* NULL or [position, rotation] of the loaded model
    cameraPivot,  \* [position, rotationY]
    moveForward, moveBackward, rotateLeft, rotateRight,
    currentPlanet,\* NULL, Spacial or MeshOf(i)
    ticks,        \* number of moveAndRotateSpaceShip calls so far
    tickFlags,    \* the four flags as the last tick read them
    tickFrom,     \* [ship]: NULL, or the rotation of spaceShip as the last tick found it
    error         \* TRUE once a handler has thrown (a TypeError on null)

vars == <<physics, dts, spaceShip, cameraPivot, moveForward, moveBackward,
          rotateLeft, rotateRight, currentPlanet, ticks, tickFlags,
          tickFrom, error>>

orbitVars == <<physics, dts>>
shipVars == <<spaceShip, cameraPivot, moveForward, moveBackward,
              rotateLeft, rotateRight, currentPlanet, ticks, tickFlags,
              tickFrom, error>>

\* null
NULL == [kind |-> "null"]

\* the object { mesh: null, spacial: true } of the "Nave espacial" button
Spacial == [kind |-> "focus", mesh |-> NULL, spacial |-> TRUE]

\* list[i].mesh, the PlanetPhysics instance of body i
MeshOf(i) == [kind |-> "PlanetPhysics", body |-> i]

\* ------------------------------------------------------------ orbit maths

\* Math.sin at q quarter turns.
Sin(q) == CASE q % 4 = 0 -> 0 [] q % 4 = 1 -> 1 [] q % 4 = 2 -> 0 [] OTHER -> -1

\* Math.cos at q quarter turns.
Cos(q) == CASE q % 4 = 0 -> 1 [] q % 4 = 1 -> 0 [] q % 4 = 2 -> -1 [] OTHER -> 0

OrbitX_swapped(p, t) == p.radius * Cos(t * p.rotationVelocity) + p.rotationCenter[1]

\* const x = radius * sin(t * rotationVelocity) + rotationCenter.x
OrbitX(p, t) == p.radius * Sin(t * p.rotationVelocity) + p.rotationCenter[1]

\* const z = radius * cos(t * rotationVelocity) + rotationCenter.z
OrbitZ(p, t) == p.radius * Cos(t * p.rotationVelocity) + p.rotationCenter[3]

OrbitY_center(p) == p.rotationCenter[2]

\* the y argument of ownMesh.position.set(x, 0, z)
OrbitY(p) == 0

PhaseUsed_last(t, dt) == t + dt

\* the phase the position is evaluated at: this.t, whatever dt is
PhaseUsed(t, dt) == t

SelfRotation_set(rotationY, p, dt) == p.selfRotationVelocity * dt

SelfRotation_noDt(rotationY, p, dt) == rotationY + p.selfRotationVelocity

\* ownMesh.rotation.y += selfRotationVelocity * dt
SelfRotation(rotationY, p, dt) == rotationY + p.selfRotationVelocity * dt

\* ------------------------------------------------------------- orbit init

\* new PlanetPhysics(mesh, params): the mesh is at the origin, unrotated.  The
\* field t is read by updatePosition and assigned nowhere in the source, so an
\* instance may be built holding any phase.
InitOrbit ==
    /\ physics \in [Bodies -> { [params |-> p, t |-> t0, position |-> <<0, 0, 0>>,
                                 rotationY |-> 0] : p \in ParamChoices, t0 \in Phases }]
    /\ dts = [b \in Bodies |-> <<>>]

\* ---------------------------------------------------------- orbit actions

TotalCalls == Len(dts[1]) + Len(dts[2])

\* The state of one instance after updatePosition(dt).
Updated(s, dt) ==
    [s EXCEPT
        !.position = << OrbitX(s.params, PhaseUsed(s.t, dt)),
                        OrbitY(s.params),
                        OrbitZ(s.params, PhaseUsed(s.t, dt)) >>,
        !.rotationY = SelfRotation(s.rotationY, s.params, dt)]

\* PlanetPhysics.updatePosition(dt) on the instance of body b.
updatePosition(b, dt) ==
    /\ TotalCalls < MaxCalls
    /\ physics' = [physics EXCEPT ![b] = Updated(physics[b], dt)]
    /\ dts' = [dts EXCEPT ![b] = Append(dts[b], dt)]
    /\ UNCHANGED shipVars

\* animate(): planets.forEach(x => x.mesh.updatePosition(dt)), one frame.  The
\* source passes the constant 0.01; the model lets the frame step be any dt.
animate(dt) ==
    /\ TotalCalls + Cardinality(Bodies) <= MaxCalls
    /\ physics' = [b \in Bodies |-> Updated(physics[b], dt)]
    /\ dts' = [b \in Bodies |-> Append(dts[b], dt)]
    /\ UNCHANGED shipVars

\* -------------------------------------------------------------- ship data

RECURSIVE Pow100(_)
Pow100(n) == IF n = 0 THEN 1 ELSE 100 * Pow100(n - 1)

\* Ship angles are integers counted in 1/AngleUnit radian: 0.2 rad is
\* 100^MaxTicks, so MaxTicks successive lerps by 3/100 divide exactly.
AngleUnit == 5 * Pow100(MaxTicks)

\* const tiltAngle = 0.4
tiltAngle == 2 * (AngleUnit \div 5)

\* const forwardTiltAngle = 0.2
forwardTiltAngle == AngleUnit \div 5

\* const tiltSpeed = 0.03, in hundredths
tiltSpeed == 3

\* the yaw increment 0.005
yawStep == AngleUnit \div 200

\* the scalar of direction.multiplyScalar(0.3), in tenths
stepLength == 3

\* event.key values delivered to the listeners
Keys == {"w", "s", "a", "d", "W", "q"}

\* event.key.toLowerCase()
toLowerCase(key) == IF key = "W" THEN "w" ELSE key

lerp_snap(x, y, t) == y

lerp_add(x, y, t) == x + y

\* THREE.MathUtils.lerp(x, y, t) = (1 - t) * x + t * y, t in hundredths
lerp(x, y, t) == x + ((y - x) * t) \div 100

\* spaceShip.getWorldDirection(direction): the unit vector of the ship's local
\* +z axis.  With Euler order XYZ it is determined by rotation.x and rotation.y
\* (a roll about z leaves the z axis in place); the model keeps it symbolic.
getWorldDirection(rotation) == [pitch |-> rotation[1], yaw |-> rotation[2]]

\* A position is its starting point plus the displacements added so far.
\* position.add(direction.multiplyScalar(k))
add(position, direction, k) ==
    [position EXCEPT !.moves = Append(@, [along |-> direction, length |-> k])]

PitchTarget_forwardFirst(backward, forward) ==
    IF forward THEN 0 - forwardTiltAngle
    ELSE IF backward THEN forwardTiltAngle
    ELSE 0

\* the target of the rotation.x lerp: if (moveBackward) .. else if (moveForward) .. else ..
PitchTarget(backward, forward) ==
    IF backward THEN forwardTiltAngle
    ELSE IF forward THEN 0 - forwardTiltAngle
    ELSE 0

RollTarget_swapped(left, right) ==
    IF left THEN tiltAngle
    ELSE IF right THEN 0 - tiltAngle
    ELSE 0

\* the target of the rotation.z lerp: if (rotateLeft) .. else if (rotateRight) .. else ..
RollTarget(left, right) ==
    IF left THEN 0 - tiltAngle
    ELSE IF right THEN tiltAngle
    ELSE 0

ShipYawStep_leftNegative(left, right) ==
    IF left THEN 0 - yawStep
    ELSE IF right THEN yawStep
    ELSE 0

\* the change of spaceShip.rotation.y
ShipYawStep(left, right) ==
    IF left THEN yawStep
    ELSE IF right THEN 0 - yawStep
    ELSE 0

PivotYawStep_leftOnly(left, right) ==
    IF left THEN yawStep
    ELSE 0

\* the change of cameraPivot.rotation.y
PivotYawStep(left, right) ==
    IF left THEN yawStep
    ELSE IF right THEN 0 - yawStep
    ELSE 0

Moved_ifForward(position, direction, forward) ==
    IF forward THEN add(position, direction, stepLength) ELSE position

\* spaceShip.position.add(direction.multiplyScalar(0.3)), whatever the flag
Moved(position, direction, forward) == add(position, direction, stepLength)

Followed_stale(pivotPosition, shipPosition) == pivotPosition

\* cameraPivot.position.copy(spaceShip.position)
Followed(pivotPosition, shipPosition) == shipPosition

\* -------------------------------------------------------------- ship init

InitShip ==
    /\ spaceShip = NULL
    /\ cameraPivot = [position |-> [origin |-> <<0, 0, 0>>, moves |-> <<>>],
                      rotationY |-> 0]
    /\ moveForward = FALSE
    /\ moveBackward = FALSE
    /\ rotateLeft = FALSE
    /\ rotateRight = FALSE
    /\ currentPlanet = NULL
    /\ ticks = 0
    /\ tickFlags = <<FALSE, FALSE, FALSE, FALSE>>
    /\ tickFrom = [ship |-> NULL]
    /\ error = FALSE

\* ----------------------------------------------------------- ship actions

\* loader.load success callback: spaceShip = m; m.position.set(20, 0, -500)
onLoad ==
    /\ spaceShip = NULL
    /\ spaceShip' = [kind |-> "gltf.scene",
                     position |-> [origin |-> <<20, 0, -500>>, moves |-> <<>>],
                     rotation |-> <<0, 0, 0>>]
    /\ UNCHANGED <<cameraPivot, moveForward, moveBackward, rotateLeft, rotateRight,
                   currentPlanet, ticks, tickFlags, tickFrom, error>>
    /\ UNCHANGED orbitVars

\* the four flags, in the order of their declarations
flags == <<moveForward, moveBackward, rotateLeft, rotateRight>>

\* the position in flags of the flag a (lower-cased) key names, 0 for any other key
flagOf(k) ==
    CASE k = "w" -> 1
      [] k = "s" -> 2
      [] k = "a" -> 3
      [] k = "d" -> 4
      [] OTHER -> 0

\* the flags with the one named by key k (if any) written to v
switch(f, k, v) ==
    <<IF flagOf(k) = 1 THEN v ELSE f[1],
      IF flagOf(k) = 2 THEN v ELSE f[2],
      IF flagOf(k) = 3 THEN v ELSE f[3],
      IF flagOf(k) = 4 THEN v ELSE f[4]>>

onKeydown_ungated(f, key) == switch(f, toLowerCase(key), TRUE)

\* the flags a keydown of key leaves: written only in ship mode with a loaded ship
onKeydown(f, key) ==
    IF currentPlanet = Spacial /\ spaceShip # NULL
    THEN switch(f, toLowerCase(key), TRUE)
    ELSE f

onKeyup_all(f, key) ==
    IF flagOf(toLowerCase(key)) = 0 THEN f ELSE <<FALSE, FALSE, FALSE, FALSE>>

onKeyup_gated(f, key) ==
    IF currentPlanet = Spacial /\ spaceShip # NULL
    THEN switch(f, toLowerCase(key), FALSE)
    ELSE f

\* the flags a keyup of key leaves: no condition guards the switch
onKeyup(f, key) == switch(f, toLowerCase(key), FALSE)

\* window "keydown" listener
keydown(key) ==
    /\ LET f == onKeydown(flags, key)
       IN  /\ moveForward' = f[1]
           /\ moveBackward' = f[2]
           /\ rotateLeft' = f[3]
           /\ rotateRight' = f[4]
    /\ UNCHANGED <<spaceShip, cameraPivot, currentPlanet, ticks, tickFlags,
                   tickFrom, error>>
    /\ UNCHANGED orbitVars

\* window "keyup" listener
keyup(key) ==
    /\ LET f == onKeyup(flags, key)
       IN  /\ moveForward' = f[1]
           /\ moveBackward' = f[2]
           /\ rotateLeft' = f[3]
           /\ rotateRight' = f[4]
    /\ UNCHANGED <<spaceShip, cameraPivot, currentPlanet, ticks, tickFlags,
                   tickFrom, error>>
    /\ UNCHANGED orbitVars

\* resetCamera(): acts on the camera and its controls, not on the ship or the pivot
resetCamera == UNCHANGED <<spaceShip, cameraPivot>>

\* the value resetButton.onclick leaves in currentPlanet
onClickReset(current) == NULL

\* the value spacialButton.onclick leaves in currentPlanet
onClickSpacial(current) == Spacial

\* the class tests of the three kinds of button: which ones show as selected
FreeSelected(current) == current = NULL

ShipSelected(current) == current.kind = "focus" /\ current.spacial

BodySelected(current, i) == current = MeshOf(i)

\* resetButton.onclick ("Vista libre")
clickReset ==
    /\ currentPlanet' = onClickReset(currentPlanet)
    /\ resetCamera
    /\ UNCHANGED <<moveForward, moveBackward, rotateLeft, rotateRight, ticks, tickFlags,
                   tickFrom, error>>
    /\ UNCHANGED orbitVars

\* spacialButton.onclick ("Nave espacial")
clickSpacial ==
    /\ currentPlanet' = onClickSpacial(currentPlanet)
    /\ resetCamera
    /\ UNCHANGED <<moveForward, moveBackward, rotateLeft, rotateRight, ticks, tickFlags,
                   tickFrom, error>>
    /\ UNCHANGED orbitVars

onClickBody_noToggle(current, i) == MeshOf(i)

\* the value button.onclick of list[i] leaves in currentPlanet: free view when
\* list[i] is the current focus, list[i].mesh otherwise
onClickBody(current, i) == IF current = MeshOf(i) THEN NULL ELSE MeshOf(i)

\* button.onclick of list[i], whose mesh is the instance of body i
clickBody(i) ==
    /\ currentPlanet' = onClickBody(currentPlanet, i)
    /\ resetCamera
    /\ UNCHANGED <<moveForward, moveBackward, rotateLeft, rotateRight, ticks, tickFlags,
                   tickFrom, error>>
    /\ UNCHANGED orbitVars

truthy_always(s) == TRUE

\* the test of if (spaceShip): null is falsy, an object is truthy
truthy(s) == s # NULL

\* moveAndRotateSpaceShip(), one tick
moveAndRotateSpaceShip ==
    /\ ticks < MaxTicks
    /\ ticks' = ticks + 1
    /\ tickFlags' = <<moveForward, moveBackward, rotateLeft, rotateRight>>
    /\ tickFrom' = [ship |-> IF spaceShip = NULL THEN NULL
                               ELSE [kind |-> spaceShip.kind,
                                     rotation |-> spaceShip.rotation]]
    /\ IF ~truthy(spaceShip)
       THEN UNCHANGED <<spaceShip, cameraPivot, error>>
       ELSE IF spaceShip = NULL
       THEN \* spaceShip.getWorldDirection on null: TypeError, the tick ends here
            /\ error' = TRUE
            /\ UNCHANGED <<spaceShip, cameraPivot>>
       ELSE LET direction == getWorldDirection(spaceShip.rotation)
                position == Moved(spaceShip.position, direction, moveForward)
                rx == lerp(spaceShip.rotation[1],
                           PitchTarget(moveBackward, moveForward), tiltSpeed)
                ry == spaceShip.rotation[2] + ShipYawStep(rotateLeft, rotateRight)
                rz == lerp(spaceShip.rotation[3],
                           RollTarget(rotateLeft, rotateRight), tiltSpeed)
            IN  /\ spaceShip' = [spaceShip EXCEPT !.position = position,
                                                !.rotation = <<rx, ry, rz>>]
                /\ cameraPivot' =
                     [position |-> Followed(cameraPivot.position, position),
                      rotationY |-> cameraPivot.rotationY
                                      + PivotYawStep(rotateLeft, rotateRight)]
                /\ UNCHANGED error
    /\ UNCHANGED <<moveForward, moveBackward, rotateLeft, rotateRight, currentPlanet>>
    /\ UNCHANGED orbitVars

\* ---------------------------------------------------------- specifications

\* The planets of the scene while the ship is studied: one fixed construction.
FixedOrbit ==
    /\ physics = [b \in Bodies |->
                    [params |-> [radius |-> 5, rotationVelocity |-> 1,
                                 selfRotationVelocity |-> 1,
                                 rotationCenter |-> <<0, 0, 0>>],
                     t |-> 0, position |-> <<0, 0, 0>>, rotationY |-> 0]]
    /\ dts = [b \in Bodies |-> <<>>]

NextOrbit ==
    \/ \E b \in Bodies, dt \in DtSet : updatePosition(b, dt)
    \/ \E dt \in DtSet : animate(dt)

NextShip ==
    \/ onLoad
    \/ \E key \in Keys : keydown(key)
    \/ \E key \in Keys : keyup(key)
    \/ clickReset
    \/ clickSpacial
    \/ \E i \in Bodies : clickBody(i)
    \/ moveAndRotateSpaceShip

\* The orbital updaters, from any construction of the instances.
Init == InitOrbit /\ InitShip

OrbitSpec == Init /\ [][NextOrbit]_vars

\* The ship controller and the focus buttons.
InitFixed == FixedOrbit /\ InitShip

ShipSpec == InitFixed /\ [][NextShip]_vars

\* The roll update on its own: a loaded ship in ship focus whose roll starts
\* anywhere on a grid over [-tiltAngle, tiltAngle], steered with the yaw keys.
RollGrid == {k * (tiltAngle \div 2) : k \in -2..2}

YawKeys == {"a", "d"}

InitTilt ==
    /\ FixedOrbit
    /\ \E z \in RollGrid :
         spaceShip = [kind |-> "gltf.scene",
                      position |-> [origin |-> <<20, 0, -500>>, moves |-> <<>>],
                      rotation |-> <<0, 0, z>>]
    /\ cameraPivot = [position |-> [origin |-> <<0, 0, 0>>, moves |-> <<>>],
                      rotationY |-> 0]
    /\ moveForward = FALSE
    /\ moveBackward = FALSE
    /\ rotateLeft = FALSE
    /\ rotateRight = FALSE
    /\ currentPlanet = Spacial
    /\ ticks = 0
    /\ tickFlags = <<FALSE, FALSE, FALSE, FALSE>>
    /\ tickFrom = [ship |-> NULL]
    /\ error = FALSE

NextTilt ==
    \/ \E key \in YawKeys : keydown(key)
    \/ \E key \in YawKeys : keyup(key)
    \/ moveAndRotateSpaceShip

TiltSpec == InitTilt /\ [][NextTilt]_vars

\* ------------------------------------------------------- orbit properties

RECURSIVE SumSeq(_)
SumSeq(q) == IF q = <<>> THEN 0 ELSE q[1] + SumSeq(Tail(q))

Calls(b) == Len(dts[b])

\* The instance of the scenario: radius 5, angular velocity 1, centre (0,0,0).
Scenario(b) ==
    /\ physics[b].params.radius = 5
    /\ physics[b].params.rotationVelocity = 1
    /\ physics[b].params.rotationCenter = <<0, 0, 0>>

\* every call so far was made with dt = pi/2
AllQuarter(b) == \A i \in 1 .. Calls(b) : dts[b][i] = 1

ClaimedOrbit == << <<5, 0, 0>>, <<0, 0, -5>>, <<-5, 0, 0>>, <<0, 0, 5>>, <<5, 0, 0>> >>

ScenarioOrbit == << <<0, 0, 5>>, <<5, 0, 0>>, <<0, 0, -5>>, <<-5, 0, 0>> >>

C2_YIsCenterY ==
    \A b \in Bodies :
        Calls(b) >= 1 => physics[b].position[2] = physics[b].params.rotationCenter[2]

\* C2 amended: after every update the body's y is 0, whatever the centre; it
\* equals center.y exactly when center.y = 0.
C2_YIsZero ==
    \A b \in Bodies :
        Calls(b) >= 1
            => /\ physics[b].position[2] = 0
               /\ (physics[b].position[2] = physics[b].params.rotationCenter[2])
                     = (physics[b].params.rotationCenter[2] = 0)

C2_Witness ==
    \E b \in Bodies :
        /\ Calls(b) >= 1
        /\ physics[b].params.rotationCenter[2] # 0
        /\ physics[b].position[2] = 0

\* C3: an update with dt = 0 that follows an earlier update of the same
\* instance leaves its position, its rotation.y and its phase as they were.
C3_ZeroDtNoOp ==
    [][ \A b \in Bodies :
            (/\ Calls(b) >= 1
             /\ Len(dts'[b]) = Calls(b) + 1
             /\ dts'[b][Calls(b) + 1] = 0)
                => /\ physics'[b].position = physics[b].position
                   /\ physics'[b].rotationY = physics[b].rotationY
                   /\ physics'[b].t = physics[b].t ]_vars

C3_Witness ==
    \E b \in Bodies :
        /\ Calls(b) >= 2
        /\ dts[b][Calls(b)] = 0
        /\ dts[b][1] # 0
        /\ physics[b].rotationY # 0
        /\ physics[b].position # <<0, 0, 0>>

\* C4: rotation.y is the self-rotation velocity times the sum of the dt of all
\* updates, so two updates with dt/2 add what one update with dt adds, at
\* every phase and position.
C4_RotationAdditive ==
    \A b \in Bodies :
        physics[b].rotationY = physics[b].params.selfRotationVelocity * SumSeq(dts[b])

C4_Witness ==
    \E b, c \in Bodies :
        /\ b # c
        /\ physics[b].params.selfRotationVelocity = physics[c].params.selfRotationVelocity
        /\ physics[b].t # physics[c].t
        /\ dts[b] = <<1, 1>>
        /\ dts[c] = <<2>>
        /\ physics[b].rotationY = physics[c].rotationY
        /\ physics[b].rotationY = 2 * physics[b].params.selfRotationVelocity

SamePosition ==
    \A b, c \in Bodies :
        (/\ physics[b].params = physics[c].params
         /\ physics[b].t = physics[c].t
         /\ Calls(b) >= 1 /\ Calls(c) >= 1
         /\ SumSeq(dts[b]) = SumSeq(dts[c]))
            => physics[b].position = physics[c].position

Isolated ==
    \A b \in Bodies :
        dts'[b] = dts[b]
            => /\ physics'[b].t = physics[b].t
               /\ physics'[b].position = physics[b].position

\* C5: two instances built alike and updated with dt sequences of the same sum
\* stand at the same position, and a step that does not update an instance
\* changes neither its phase nor its position.
C5_Deterministic == []SamePosition /\ [][Isolated]_vars

C5_Witness ==
    \E b, c \in Bodies :
        /\ b # c
        /\ physics[b].params = physics[c].params
        /\ physics[b].t = physics[c].t
        /\ dts[b] = <<1, 1>>
        /\ dts[c] = <<2>>
        /\ physics[b].position = physics[c].position
        /\ physics[b].position # <<0, 0, 0>>

\* -------------------------------------------------------- ship properties

\* a step that is one tick of a loaded ship
LoadedTick == ticks' = ticks + 1 /\ spaceShip # NULL

C8_FirstMatchWins ==
    [][ LoadedTick =>
          /\ (moveBackward /\ moveForward) =>
                spaceShip'.rotation[1] =
                    spaceShip.rotation[1]
                      + (3 * ((AngleUnit \div 5) - spaceShip.rotation[1])) \div 100
          /\ (rotateLeft /\ rotateRight) =>
                /\ spaceShip'.rotation[2] = spaceShip.rotation[2] + AngleUnit \div 200
                /\ cameraPivot'.rotationY = cameraPivot.rotationY + AngleUnit \div 200
                /\ spaceShip'.rotation[3] =
                     spaceShip.rotation[3]
                       + (3 * ((0 - 2 * (AngleUnit \div 5)) - spaceShip.rotation[3])) \div 100
      ]_vars

C8_Witness ==
    /\ spaceShip # NULL
    /\ Len(spaceShip.position.moves) >= 1
    /\ tickFlags = <<TRUE, TRUE, TRUE, TRUE>>
    /\ spaceShip.rotation[1] > 0
    /\ spaceShip.rotation[2] > 0
    /\ spaceShip.rotation[3] < 0
    /\ cameraPivot.rotationY > 0

\* C9: after every tick of a loaded ship the pivot's position is the ship's
\* position of that tick.
C9_PivotFollows ==
    [][ LoadedTick => cameraPivot'.position = spaceShip'.position ]_vars

C9_Witness ==
    /\ spaceShip # NULL
    /\ Len(spaceShip.position.moves) >= 2
    /\ tickFlags[3]
    /\ cameraPivot.position = spaceShip.position

\* C10: every tick and every key event of a loaded ship changes the pivot yaw
\* by exactly what it changes the ship yaw.
C10_YawLockstep ==
    [][ (spaceShip # NULL /\ spaceShip' # NULL /\ currentPlanet' = currentPlanet)
          => cameraPivot'.rotationY - cameraPivot.rotationY
                = spaceShip'.rotation[2] - spaceShip.rotation[2] ]_vars

C10_Witness ==
    /\ spaceShip # NULL
    /\ ticks >= 2
    /\ tickFlags[3] = FALSE /\ tickFlags[4] = TRUE
    /\ spaceShip.rotation[2] < 0
    /\ cameraPivot.rotationY = spaceShip.rotation[2]

\* C11: a tick that finds no ship loaded is a no-op: it throws nothing, the
\* ship stays absent, and the pivot (position and yaw) and the four input
\* flags are left as they were, whatever key events and clicks came before.
C11_UnloadedTickNoOp ==
    [][ (ticks' = ticks + 1 /\ spaceShip = NULL)
          => /\ error = FALSE /\ error' = FALSE
             /\ spaceShip' = NULL
             /\ cameraPivot' = cameraPivot
             /\ flags' = flags ]_vars

C11_Witness ==
    /\ spaceShip = NULL
    /\ tickFrom.ship = NULL
    /\ ticks = MaxTicks
    /\ currentPlanet = Spacial
    /\ cameraPivot.position.moves = <<>>
    /\ error = FALSE

\* the keys that name a flag, in either case
FlagKeys == {k \in Keys : flagOf(toLowerCase(k)) # 0}

ShipMode == currentPlanet = Spacial /\ spaceShip # NULL

\* C12 as claimed: outside ship focus no key event, key-down or key-up,
\* changes any of the four flags.
C12_KeysGatedByFocus ==
    currentPlanet # Spacial
      => \A key \in Keys : /\ onKeydown(flags, key) = flags
                           /\ onKeyup(flags, key) = flags

\* C12: a key-down sets its flag exactly in ship mode (ship focus selected and
\* the ship loaded) and is ignored everywhere else; outside ship focus a key
\* event can only turn a flag off, which a key-up of its key does.
C12_KeydownGatedByFocus ==
    /\ ShipMode => \A key \in FlagKeys :
                     onKeydown(flags, key)[flagOf(toLowerCase(key))] = TRUE
    /\ ~ShipMode => \A key \in Keys : onKeydown(flags, key) = flags
    /\ currentPlanet # Spacial
         => \A key \in Keys :
              /\ \A i \in 1..4 : onKeyup(flags, key)[i] => flags[i]
              /\ key \in FlagKeys
                   => onKeyup(flags, key)[flagOf(toLowerCase(key))] = FALSE

C12_Witness ==
    /\ currentPlanet = MeshOf(1)
    /\ spaceShip # NULL
    /\ tickFlags[1] = TRUE /\ tickFlags[3] = TRUE
    /\ moveForward = FALSE
    /\ rotateLeft = TRUE

Abs(x) == IF x < 0 THEN -x ELSE x

\* the last tick found the ship loaded, so tickFrom.ship is the ship before
\* that tick and spaceShip, which only ticks change, is the ship after it
LastTickLoaded == ticks >= 1 /\ tickFrom.ship # NULL

\* x1 is x0 moved by exactly the fraction tiltSpeed/100 of its distance to target
MovedByFraction(x0, x1, target) ==
    /\ ((target - x0) * tiltSpeed) % 100 = 0
    /\ x1 - x0 = ((target - x0) * tiltSpeed) \div 100

LeftTick == LastTickLoaded /\ tickFlags[3] = TRUE /\ tickFlags[4] = FALSE

\* C14 as claimed: a tick with yawLeft held lowers the ship's yaw by the
\* constant step.
C14_YawDecreases ==
    LeftTick => /\ spaceShip.rotation[2] < tickFrom.ship.rotation[2]
                /\ tickFrom.ship.rotation[2] - spaceShip.rotation[2] = yawStep

\* C14: a tick with yawLeft held (yawRight not) raises the ship's yaw by the
\* same constant, 0.005 rad, every time: over consecutive such ticks the yaw
\* increases monotonically.
C14_YawIncreases ==
    LeftTick => /\ spaceShip.rotation[2] > tickFrom.ship.rotation[2]
                /\ spaceShip.rotation[2] - tickFrom.ship.rotation[2] = yawStep

C14_Witness ==
    /\ LeftTick
    /\ ticks = MaxTicks
    /\ spaceShip.rotation[2] = MaxTicks * yawStep

\* C15: a tick that reads yawLeft set, from any roll in [-0.4, 0.4], moves the
\* roll by the fraction 0.03 of its distance to -0.4: the roll does not rise,
\* falls strictly while above -0.4, and never goes below -0.4.
C15_RollTowardNegativeBound ==
    (LastTickLoaded /\ tickFlags[3] = TRUE)
      => LET z0 == tickFrom.ship.rotation[3]
             z1 == spaceShip.rotation[3]
         IN  (0 - tiltAngle <= z0 /\ z0 <= tiltAngle)
               => /\ MovedByFraction(z0, z1, 0 - tiltAngle)
                  /\ z1 <= z0
                  /\ z1 >= 0 - tiltAngle
                  /\ (z0 > 0 - tiltAngle) => (z1 < z0 /\ z1 > 0 - tiltAngle)

C15_Witness ==
    /\ LastTickLoaded
    /\ tickFlags[3] = TRUE
    /\ ticks = MaxTicks
    /\ tickFrom.ship.rotation[3] > tiltAngle \div 2
    /\ spaceShip.rotation[3] < tickFrom.ship.rotation[3]
    /\ spaceShip.rotation[2] = MaxTicks * yawStep

\* f and g differ at most in the flag the key names
OnlyOwnFlag(f, g, key) ==
    \A i \in 1..4 : (i # flagOf(toLowerCase(key))) => (g[i] = f[i])

\* C16: a key event writes at most the one flag its key names and nothing
\* else: the other flags, the ship and the pivot stay as they are until a
\* tick runs; and the same event once more changes nothing further.
C16_KeyEventIsFlagWrite ==
    /\ [](\A key \in Keys :
            /\ OnlyOwnFlag(flags, onKeydown(flags, key), key)
            /\ OnlyOwnFlag(flags, onKeyup(flags, key), key)
            /\ onKeydown(onKeydown(flags, key), key) = onKeydown(flags, key)
            /\ onKeyup(onKeyup(flags, key), key) = onKeyup(flags, key))
    /\ [][ (flags' # flags)
             => /\ Cardinality({i \in 1..4 : flags'[i] # flags[i]}) = 1
                /\ spaceShip' = spaceShip
                /\ cameraPivot' = cameraPivot
                /\ currentPlanet' = currentPlanet
                /\ ticks' = ticks ]_vars

C16_Witness ==
    /\ spaceShip # NULL
    /\ ticks >= 1
    /\ tickFlags = <<FALSE, TRUE, FALSE, FALSE>>
    /\ flags = <<FALSE, TRUE, FALSE, TRUE>>
    /\ cameraPivot.position = spaceShip.position

\* how many buttons show as selected
SelectedCount(current) ==
    (IF FreeSelected(current) THEN 1 ELSE 0)
    + (IF ShipSelected(current) THEN 1 ELSE 0)
    + Cardinality({i \in Bodies : BodySelected(current, i)})

C18_KeyupAlwaysClears ==
    \A key \in FlagKeys :
      /\ onKeyup(flags, key)[flagOf(toLowerCase(key))] = FALSE
      /\ onKeyup(switch(flags, toLowerCase(key), TRUE), key)[flagOf(toLowerCase(key))]
           = FALSE

C18_Witness ==
    /\ FreeSelected(currentPlanet)
    /\ spaceShip # NULL
    /\ ticks >= 1
    /\ tickFlags = <<TRUE, TRUE, TRUE, TRUE>>
    /\ flags = <<FALSE, FALSE, FALSE, FALSE>>

====
